---------------------------- MODULE Spec2Model ----------------------------
(***************************************************************************)
(* The three notebooks of the coastal applications workshop as state       *)
(* machines, one action per code cell:                                     *)
(*   "ml"    05_Sentinel-2_MachineLearning.ipynb (cloud mask, scaling,     *)
(*           indices, median composite, training table, classifier);       *)
(*   "coast" Analysing Coastal Change with Landsat (bit-flag mask,         *)
(*           scaling, tide masking, water index, annual medians);          *)
(*   "tide"  High- and Low-tide Composites (cloud mask, tide quantiles,    *)
(*           low/high medians, MNDWI).                                     *)
(*                                                                         *)
(* A float is an extended rational <<n, d>>: d > 0 and gcd(n, d) = 1 for a *)
(* finite value, <<0, 0>> for NaN (an absent sample), <<1, 0>> and         *)
(* <<-1, 0>> for the infinities.  The arithmetic follows IEEE-754 on the   *)
(* special values and is exact on the finite ones (rounding is not         *)
(* modelled).                                                              *)
(***************************************************************************)
EXTENDS Integers, Sequences, FiniteSets, TLC

VARIABLES
    nb,                 \* the notebook that is running
    pc,                 \* the last cell that ran
    data,               \* load(...): time -> pixel -> band -> digital number
    years,              \* the year of each time-step of data (data.time.dt.year)
    masked,             \* the notebook's `masked`
    scaled,             \* the notebook's `scaled`
    median,             \* ml: `median` (pixel -> band -> value)
    training,           \* ml: the training points `gdf`
    training_array,     \* ml: the table of classes and observations
    fitted,             \* ml: what classifier.fit was given
    tides,              \* coast: tides_hires; tide: tides_lowres
    cutoffs,            \* coast: tide_cutoff_min, tide_cutoff_max
    data_filtered,      \* coast: the time-steps kept by the tide filter
    data_tide_masked,   \* coast: data_filtered.where(tide_bool), then the indices
    grouped_by_year,    \* coast: year -> pixel -> median of the water index
    quantiles,          \* tide: lowest, highest
    data_low,           \* tide: the low-tide time-steps
    data_high,          \* tide: the high-tide time-steps
    median_low,         \* tide: the low-tide composite
    median_high,        \* tide: the high-tide composite
    predicted_da,       \* ml: the grid of predicted classes
    points_gdf,         \* coast: the coastline points and their trends
    fetched,            \* the time-steps whose pixels were read from storage
    realized,           \* the kinds of cell that asked for values so far
    tasks,              \* ml: the tile tasks of the median, tile -> status
    partial,            \* ml: the composite the tile tasks assemble
    written             \* ml: how many tile tasks wrote each pixel

vars == <<nb, pc, data, years, masked, scaled, median, training, training_array,
          fitted, tides, cutoffs, data_filtered, data_tide_masked,
          grouped_by_year, quantiles, data_low, data_high, median_low,
          median_high, predicted_da, points_gdf, fetched, realized, tasks,
          partial, written>>

mlVars == <<median, training, training_array, fitted>>
coastVars == <<cutoffs, data_filtered, data_tide_masked, grouped_by_year>>
tideVars == <<quantiles, data_low, data_high, median_low, median_high>>
outVars == <<predicted_da, points_gdf>>
ioVars == <<fetched, realized>>
daskVars == <<tasks, partial, written>>

-----------------------------------------------------------------------------
(* Floats *)

NaN == <<0, 0>>
PosInf == <<1, 0>>
NegInf == <<-1, 0>>
Zero == <<0, 1>>
One == <<1, 1>>

Abs(n) == IF n < 0 THEN -n ELSE n
Sign(n) == IF n < 0 THEN -1 ELSE IF n > 0 THEN 1 ELSE 0

RECURSIVE GCD(_, _)
GCD(a, b) == IF b = 0 THEN a ELSE GCD(b, a % b)

\* The float n/d (0/0 is NaN, x/0 is a signed infinity).
Rat(n, d) ==
    IF d = 0 THEN <<Sign(n), 0>>
    ELSE LET s == IF d < 0 THEN -1 ELSE 1
             g == GCD(Abs(n), Abs(d))
         IN  <<(s * n) \div g, (s * d) \div g>>

FromInt(n) == <<n, 1>>
IsNaN(v) == v = NaN
IsInf(v) == v[2] = 0 /\ v[1] # 0
IsFinite(v) == v[2] > 0

Neg(v) == <<-v[1], v[2]>>

Add(a, b) ==
    IF IsNaN(a) \/ IsNaN(b) THEN NaN
    ELSE IF IsInf(a) THEN (IF IsInf(b) /\ b # a THEN NaN ELSE a)
    ELSE IF IsInf(b) THEN b
    ELSE LET g == GCD(a[2], b[2])
         IN  Rat(a[1] * (b[2] \div g) + b[1] * (a[2] \div g), (a[2] \div g) * b[2])

Sub(a, b) == Add(a, Neg(b))

Mul(a, b) ==
    IF IsNaN(a) \/ IsNaN(b) THEN NaN
    ELSE IF IsInf(a) \/ IsInf(b)
         THEN <<Sign(a[1]) * Sign(b[1]), 0>>
    ELSE LET g1 == GCD(Abs(a[1]), b[2])
             g2 == GCD(Abs(b[1]), a[2])
         IN  Rat((a[1] \div g1) * (b[1] \div g2), (a[2] \div g2) * (b[2] \div g1))

Div(a, b) ==
    IF IsNaN(a) \/ IsNaN(b) THEN NaN
    ELSE IF IsInf(b) THEN (IF IsInf(a) THEN NaN ELSE Zero)
    ELSE IF IsInf(a) THEN <<a[1] * (IF b[1] < 0 THEN -1 ELSE 1), 0>>
    ELSE IF b[1] = 0 THEN <<Sign(a[1]), 0>>
    ELSE Mul(a, <<Sign(b[1]) * b[2], Abs(b[1])>>)

\* a < b on floats; false when either is NaN.
Less(a, b) ==
    IF IsNaN(a) \/ IsNaN(b) THEN FALSE
    ELSE IF IsInf(a) THEN a = NegInf /\ b # NegInf
    ELSE IF IsInf(b) THEN b = PosInf
    ELSE a[1] * b[2] < b[1] * a[2]

LessEq(a, b) == ~IsNaN(a) /\ ~IsNaN(b) /\ ~Less(b, a)

\* A clip that forgets the upper bound.
ClipBelow(v, lo, hi) ==
    IF IsNaN(v) THEN NaN
    ELSE IF Less(v, lo) THEN lo
    ELSE v

\* DataArray.clip(lo, hi): NaN stays NaN, everything else is clamped.
Clip(v, lo, hi) ==
    IF IsNaN(v) THEN NaN
    ELSE IF Less(v, lo) THEN lo
    ELSE IF Less(hi, v) THEN hi
    ELSE v

\* DataArray.where(cond): the value where cond holds, NaN elsewhere.
Where(v, cond) == IF cond THEN v ELSE NaN

-----------------------------------------------------------------------------
(* Reductions over time *)

RECURSIVE Insert(_, _)
Insert(v, s) ==
    IF s = <<>> THEN <<v>>
    ELSE IF Less(s[1], v) THEN <<s[1]>> \o Insert(v, Tail(s))
    ELSE <<v>> \o s

RECURSIVE Sort(_)
Sort(s) == IF s = <<>> THEN <<>> ELSE Insert(s[1], Sort(Tail(s)))

IsPresent(v) == ~IsNaN(v)

Half == <<1, 2>>

\* A median that counts an absent sample as 0 instead of skipping it.
ZeroFillMedian(s) ==
    LET z == [i \in DOMAIN s |-> IF IsNaN(s[i]) THEN Zero ELSE s[i]]
        sorted == Sort(z)
        n == Len(sorted)
    IN  IF n = 0 THEN NaN
        ELSE IF n % 2 = 1 THEN sorted[(n + 1) \div 2]
        ELSE Mul(Add(sorted[n \div 2], sorted[n \div 2 + 1]), Half)

\* A median that takes the middle of the present samples in time order.
UnsortedMedian(s) ==
    LET present == SelectSeq(s, IsPresent)
        n == Len(present)
    IN  IF n = 0 THEN NaN
        ELSE IF n % 2 = 1 THEN present[(n + 1) \div 2]
        ELSE Mul(Add(present[n \div 2], present[n \div 2 + 1]), Half)

\* .median("time") with skipna: the median of the samples that are not NaN,
\* NaN when there is none.
NanMedian(s) ==
    LET sorted == Sort(SelectSeq(s, IsPresent))
        n == Len(sorted)
    IN  IF n = 0 THEN NaN
        ELSE IF n % 2 = 1 THEN sorted[(n + 1) \div 2]
        ELSE Mul(Add(sorted[n \div 2], sorted[n \div 2 + 1]), Half)

\* The series of band b at pixel p.
Series(ds, p, b) == [t \in 1..Len(ds) |-> ds[t][p][b]]

\* Dataset.median("time"): per pixel and band.
MedianTime(ds) ==
    [p \in DOMAIN ds[1] |-> [b \in DOMAIN ds[1][p] |-> NanMedian(Series(ds, p, b))]]

-----------------------------------------------------------------------------
(* Datasets: a sequence over time of scenes, a scene a function from the  *)
(* pixels to records of bands.                                            *)

NP == 2
Pixels == 1..NP

\* The integer samples of a dataset as floats (where promotes to float).
AsFloat(ds) ==
    [t \in DOMAIN ds |-> [p \in DOMAIN ds[t] |->
        [b \in DOMAIN ds[t][p] |-> FromInt(ds[t][p][b])]]]

\* Dataset.where(cond) with a (time, pixel) condition broadcast over the bands.
WhereDataset(ds, cond) ==
    [t \in DOMAIN ds |-> [p \in DOMAIN ds[t] |->
        [b \in DOMAIN ds[t][p] |-> Where(ds[t][p][b], cond[t][p])]]]

-----------------------------------------------------------------------------
(* 05_Sentinel-2_MachineLearning.ipynb *)

NT == 4

\* 1: defective, 3: shadow, 8: low confidence cloud, 9: high confidence
\* cloud, 10: thin cirrus
mask_flags == {1, 3, 8, 9, 10}

\* The Sentinel-2 scale factor 0.0001.
S2Scale == <<1, 10000>>

\* Synthetic Sentinel-2 spectra (digital numbers): vegetation; a null red
\* and blue with green = nir08 = swir16; a saturated red and blue with
\* swir16 = green < nir08; water with swir16 = green > nir08.
S2Spectra ==
    << [red |-> 400, green |-> 800, blue |-> 300, nir08 |-> 3000, swir16 |-> 1600],
       [red |-> 0, green |-> 2000, blue |-> 0, nir08 |-> 2000, swir16 |-> 2000],
       [red |-> 12000, green |-> 1000, blue |-> 10001, nir08 |-> 3000, swir16 |-> 1000],
       [red |-> 300, green |-> 1000, blue |-> 600, nir08 |-> 500, swir16 |-> 1000] >>

\* Scene classification codes of a scene: all pixels clear, all pixels
\* cloudy (9 or 8), or the odd pixels flagged (10, 3, 1) and the even clear.
ClearCodes == <<4, 0, 5>>
CloudCodes == <<9, 8>>
FlagCodes == <<10, 3, 1>>
Pick(codes, k) == codes[(k % Len(codes)) + 1]
SclOf(pattern, p) ==
    IF pattern = "clear" THEN Pick(ClearCodes, p - 1)
    ELSE IF pattern = "cloudy" THEN Pick(CloudCodes, p - 1)
    ELSE IF p % 2 = 1 THEN Pick(FlagCodes, p \div 2)
    ELSE 6

\* A synthetic scene: pixel p carries spectrum i + p - 1 (cyclically).
S2Scene(i, pattern) ==
    [p \in Pixels |-> Pick(S2Spectra, i + p - 2) @@ [scl |-> SclOf(pattern, p)]]

S2Scenes ==
    {S2Scene(i, "clear") : i \in 1..3}
        \cup {S2Scene(1, "partial"), S2Scene(1, "cloudy")}

Unset == <<>>

\* The variables no cell has assigned yet.
NothingDerived ==
    /\ predicted_da = Unset
    /\ points_gdf = Unset
    /\ tasks = Unset
    /\ partial = Unset
    /\ written = Unset

\* A load that reads every time-step at once.
EagerLoad(ds) == DOMAIN ds

\* load(items, ..., chunks={"x": 2048, "y": 2048}): with chunks the dataset
\* is a lazy dask graph and no time-step is read.
FetchedByLoad(ds) == {}

\* The state after odc.stac.load: NT time-steps drawn from scenes.
LoadedML(scenes) ==
    /\ nb = "ml"
    /\ pc = "load"
    /\ data \in [1..NT -> scenes]
    /\ years = Unset
    /\ masked = Unset
    /\ scaled = Unset
    /\ median = Unset
    /\ training = Unset
    /\ training_array = Unset
    /\ fitted = Unset
    /\ tides = Unset
    /\ cutoffs = Unset
    /\ data_filtered = Unset
    /\ data_tide_masked = Unset
    /\ grouped_by_year = Unset
    /\ quantiles = Unset
    /\ data_low = Unset
    /\ data_high = Unset
    /\ median_low = Unset
    /\ median_high = Unset
    /\ NothingDerived
    /\ fetched = FetchedByLoad(data)
    /\ realized = {}

InitML == LoadedML(S2Scenes)

\* cloud_mask = ~data.scl.isin(mask_flags)
S2CloudMask(ds) == [t \in DOMAIN ds |-> [p \in DOMAIN ds[t] |-> ds[t][p].scl \notin mask_flags]]

\* masked = data.where(cloud_mask): every band, scl included, as floats.
S2Masked(ds) == WhereDataset(AsFloat(ds), S2CloudMask(ds))

\* A rescaling that keeps a null digital number as reflectance 0.
ScaleNullAsZero(v) == Clip(Mul(v, S2Scale), Zero, One)

\* (masked.where(masked != 0) * 0.0001).clip(0, 1) on one sample
S2ScaleSample(v) == Clip(Mul(Where(v, v # Zero), S2Scale), Zero, One)

\* A ratio that divides by twice the first band.
RatioToFirst(a, b) == Div(Sub(a, b), Add(a, a))

\* Normalised difference (a - b) / (a + b).
NormDiff(a, b) == Div(Sub(a, b), Add(a, b))

Tenth == <<1, 10>>
MinusOne == <<-1, 1>>

\* An MVI without the final clip.
UnclippedMVI(nir08, green, swir16) ==
    Mul(Div(Sub(nir08, green), Sub(swir16, green)), Tenth)

\* (((nir08 - green) / (swir16 - green)) * 0.1).clip(-1, 1)
MVI(nir08, green, swir16) ==
    Clip(Mul(Div(Sub(nir08, green), Sub(swir16, green)), Tenth), MinusOne, One)

\* scaled["ndvi"], scaled["ndwi"], scaled["mvi"] added to a pixel's bands.
S2Indices(px) ==
    px @@ [ndvi |-> NormDiff(px.nir08, px.red),
           ndwi |-> NormDiff(px.green, px.nir08),
           mvi |-> MVI(px.nir08, px.green, px.swir16)]

S2Scaled(m) ==
    LET base == [t \in DOMAIN m |-> [p \in DOMAIN m[t] |->
                    [b \in DOMAIN m[t][p] |-> S2ScaleSample(m[t][p][b])]]]
    IN  [t \in DOMAIN base |-> [p \in DOMAIN base[t] |-> S2Indices(base[t][p])]]

\* Cell "Mask out clouds and scale values".
PrepareData ==
    /\ nb = "ml" /\ pc = "load"
    /\ masked' = S2Masked(data)
    /\ scaled' = S2Scaled(masked')
    /\ pc' = "scaled"
    /\ UNCHANGED <<nb, data, years, tides>>
    /\ UNCHANGED <<mlVars, coastVars, tideVars>>
    /\ UNCHANGED <<outVars, ioVars, daskVars>>

\* Cell "Create a median composite": median = scaled.median("time").compute()
CreateMedian ==
    /\ nb = "ml" /\ pc = "scaled"
    /\ median' = MedianTime(scaled)
    /\ pc' = "median"
    /\ UNCHANGED <<nb, data, years, masked, scaled, tides>>
    /\ UNCHANGED <<training, training_array, fitted, coastVars, tideVars>>
    /\ fetched' = DOMAIN data
    /\ realized' = realized \cup {"compute"}
    /\ UNCHANGED <<outVars, daskVars>>

\* The x coordinate of pixel p (10 m pixels on one row).
PixelX(p) == 10 * p

\* median.sel(x=..., method="nearest"): the pixel nearest to x, the larger
\* index on a tie.
Nearest(x) ==
    CHOOSE p \in Pixels :
        \A q \in Pixels :
            \/ Abs(x - PixelX(p)) < Abs(x - PixelX(q))
            \/ Abs(x - PixelX(p)) = Abs(x - PixelX(q)) /\ q <= p

NPts == 3

\* Synthetic training files: point i lies 3 m right or 4 m left of a pixel
\* centre, the classes 1 and 2 alternate.
TrainingFile(o) ==
    [i \in 1..NPts |->
        [Class |-> ((i + o) % 2) + 1,
         x |-> PixelX(((i + o) % NP) + 1) + (IF i % 2 = 1 THEN 3 ELSE -4)]]

TrainingFiles == {TrainingFile(o) : o \in {0, 1}}

\* A join that pairs the class of point i with the values sampled for the
\* next point.
ShiftedRows(composite, points) ==
    [i \in DOMAIN points |->
        [index |-> i, Class |-> points[i].Class,
         obs |-> composite[Nearest(points[(i % Len(points)) + 1].x)]]]

\* training_values joined with training["Class"]: one row per point, in
\* the order of the points, the columns y, x and spatial_ref dropped.
JoinedRows(composite, points) ==
    [i \in DOMAIN points |->
        [index |-> i, Class |-> points[i].Class, obs |-> composite[Nearest(points[i].x)]]]

HasNaN(row) == \E b \in DOMAIN row.obs : IsNaN(row.obs[b])
Complete(row) == ~HasNaN(row)

\* A dropna that drops a row only when all its observations are absent.
DropAllNaN(rows) ==
    LET NotEmpty(row) == \E b \in DOMAIN row.obs : ~IsNaN(row.obs[b])
    IN  SelectSeq(rows, NotEmpty)

\* DataFrame.dropna(): the rows without any NaN, in order.
DropNa(rows) == SelectSeq(rows, Complete)

\* Cell "Prepare training data array".
PrepareTraining ==
    /\ nb = "ml" /\ pc = "median"
    /\ \E points \in TrainingFiles :
        /\ training' = points
        /\ training_array' = DropNa(JoinedRows(median, points))
    /\ pc' = "training"
    /\ UNCHANGED <<nb, data, years, masked, scaled, median, fitted, tides>>
    /\ UNCHANGED <<coastVars, tideVars>>
    /\ UNCHANGED <<outVars, ioVars, daskVars>>

\* load(..., measurements=[...]) and the indices in the order the cell
\* assigns them: the data variables of the composite, in order.
measurements == <<"red", "green", "blue", "nir08", "swir16", "scl">>
DataVars == measurements \o <<"ndvi", "ndwi", "mvi">>

\* The columns of training_array: "Class" first, then the columns of
\* training_values without the dropped y, x and spatial_ref.
TrainingColumns ==
    LET Kept(c) == c \notin {"y", "x", "spatial_ref"}
    IN  SelectSeq(<<"Class">> \o <<"y", "x", "spatial_ref">> \o DataVars, Kept)

AllColumns(columns) == columns

\* np.array(training_array)[:, 1:]
ObservationColumns(columns) == Tail(columns)

\* One row of np.array(training_array) restricted to the given columns.
ArrayRow(row, columns) ==
    [j \in 1..Len(columns) |->
        IF columns[j] = "Class" THEN FromInt(row.Class) ELSE row.obs[columns[j]]]

\* classes = np.array(training_array)[:, 0]; observations = ...[:, 1:]
FitInput(rows) ==
    [classes |-> [i \in DOMAIN rows |-> rows[i].Class],
     observations |-> [i \in DOMAIN rows |-> rows[i].obs],
     columns |-> ObservationColumns(TrainingColumns),
     array |-> [i \in DOMAIN rows |->
                   ArrayRow(rows[i], ObservationColumns(TrainingColumns))]]

\* The classifiers fit may return, as far as prediction is concerned:
\* decision stumps on one feature column, "value <= threshold" on the left.
Stumps(n_features) ==
    {[column |-> c, threshold |-> <<1, 20>>, left |-> 1, right |-> 2] :
        c \in {1, n_features - 2}}

\* model.predict on one feature vector.
Classify(m, vec) ==
    IF LessEq(vec[m.column], m.threshold) THEN m.left ELSE m.right

\* Cell "Create a classifier and fit a model": fit refuses an empty table
\* (scikit-learn raises ValueError on 0 samples).
FitModel ==
    /\ nb = "ml" /\ pc = "training"
    /\ IF training_array = <<>>
       THEN pc' = "raised" /\ fitted' = fitted
       ELSE /\ pc' = "fitted"
            /\ \E m \in Stumps(Len(FitInput(training_array).columns)) :
                   fitted' = FitInput(training_array) @@ [model |-> m]
    /\ UNCHANGED <<nb, data, years, masked, scaled, median, training,
                   training_array, tides>>
    /\ UNCHANGED <<coastVars, tideVars>>
    /\ UNCHANGED <<outVars, ioVars, daskVars>>

NextML == PrepareData \/ CreateMedian \/ PrepareTraining \/ FitModel

-----------------------------------------------------------------------------
(* Analysing Coastal Change with Landsat *)

NTc == 2

\* Bits 3 and 4 of QA_PIXEL (0b00011000): cloud and cloud shadow.
bitflags == 24

RECURSIVE BitAnd(_, _)
BitAnd(a, b) ==
    IF a = 0 \/ b = 0 THEN 0
    ELSE (a % 2) * (b % 2) + 2 * BitAnd(a \div 2, b \div 2)

\* The Landsat scale factor 0.0000275 and offset -0.2.
LandsatScale == <<11, 400000>>
LandsatOffset == <<-1, 5>>

\* Synthetic Landsat spectra (digital numbers): land; water with a swir16
\* below the offset; a dark pixel with green, nir08 and swir16 below the
\* offset and a null blue; fill.
LandsatSpectra ==
    << [red |-> 20000, green |-> 8000, blue |-> 8000, nir08 |-> 40000, swir16 |-> 20000],
       [red |-> 8000, green |-> 20000, blue |-> 50000, nir08 |-> 8000, swir16 |-> 7272],
       [red |-> 7272, green |-> 7000, blue |-> 0, nir08 |-> 5000, swir16 |-> 7272] >>
LandsatFill == [red |-> 0, green |-> 0, blue |-> 0, nir08 |-> 0, swir16 |-> 0]

\* QA_PIXEL values: clear and water (bits 3 and 4 unset), cloud (bit 3),
\* cloud shadow (bit 4), fill (bit 0).
QAClear == <<21824, 21952>>
QAFlagged == <<22280, 23888>>

\* A synthetic scene: all pixels clear, or the odd pixels flagged as cloud
\* or shadow and the even pixels fill.
LandsatScene(i, pattern) ==
    [p \in Pixels |->
        IF pattern = "clear"
        THEN Pick(LandsatSpectra, i + p - 2) @@ [qa_pixel |-> Pick(QAClear, p - 1)]
        ELSE IF p % 2 = 1
        THEN Pick(LandsatSpectra, i + p - 2) @@ [qa_pixel |-> Pick(QAFlagged, p \div 2)]
        ELSE LandsatFill @@ [qa_pixel |-> 1]]

LandsatScenes ==
    {LandsatScene(1, "clear"), LandsatScene(2, "clear"), LandsatScene(3, "partial")}

\* The years of the time-steps: in time order, within the queried range.
YearSeqs ==
    {ys \in [1..NTc -> {2022, 2023}] : \A t \in 1..(NTc - 1) : ys[t] <= ys[t + 1]}

LoadedCoast(scenes, yearSeqs) ==
    /\ nb = "coast"
    /\ pc = "load"
    /\ data \in [1..NTc -> scenes]
    /\ years \in yearSeqs
    /\ masked = Unset
    /\ scaled = Unset
    /\ median = Unset
    /\ training = Unset
    /\ training_array = Unset
    /\ fitted = Unset
    /\ tides = Unset
    /\ cutoffs = Unset
    /\ data_filtered = Unset
    /\ data_tide_masked = Unset
    /\ grouped_by_year = Unset
    /\ quantiles = Unset
    /\ data_low = Unset
    /\ data_high = Unset
    /\ median_low = Unset
    /\ median_high = Unset
    /\ NothingDerived
    /\ fetched = FetchedByLoad(data)
    /\ realized = {}

InitCoast == LoadedCoast(LandsatScenes, YearSeqs)

\* A cloud mask that applies the Sentinel-2 code list to QA_PIXEL.
CodeListMask(ds) ==
    [t \in DOMAIN ds |-> [p \in DOMAIN ds[t] |-> ds[t][p].qa_pixel \in mask_flags]]

\* cloud_mask = (data.qa_pixel.astype(int) & bitflags) != 0
LandsatCloudMask(ds) ==
    [t \in DOMAIN ds |-> [p \in DOMAIN ds[t] |-> BitAnd(ds[t][p].qa_pixel, bitflags) # 0]]

\* nodata = data.red == 0
LandsatNoData(ds) == [t \in DOMAIN ds |-> [p \in DOMAIN ds[t] |-> ds[t][p].red = 0]]

\* A mask that leaves out the nodata mask.
CloudOnlyMask(ds) == LandsatCloudMask(ds)

\* mask = cloud_mask | nodata
LandsatMask(ds) ==
    [t \in DOMAIN ds |-> [p \in DOMAIN ds[t] |->
        LandsatCloudMask(ds)[t][p] \/ LandsatNoData(ds)[t][p]]]

\* (data.where(data != 0) * 0.0000275 + -0.2).clip(0, 1) on one sample
LandsatScaleSample(n) ==
    Clip(Add(Mul(Where(FromInt(n), n # 0), LandsatScale), LandsatOffset), Zero, One)

LandsatScaled(ds) ==
    [t \in DOMAIN ds |-> [p \in DOMAIN ds[t] |->
        [b \in DOMAIN ds[t][p] |-> LandsatScaleSample(ds[t][p][b])]]]

\* masked = scaled.where(~mask)
LandsatMasked(sc, mask) ==
    WhereDataset(sc, [t \in DOMAIN mask |-> [p \in DOMAIN mask[t] |-> ~mask[t][p]]])

\* Cell "Bit flag mask for the QA_PIXEL band".
MaskAndScale ==
    /\ nb = "coast" /\ pc = "load"
    /\ scaled' = LandsatScaled(data)
    /\ masked' = LandsatMasked(scaled', LandsatMask(data))
    /\ pc' = "masked"
    /\ UNCHANGED <<nb, data, years, tides>>
    /\ UNCHANGED <<mlVars, coastVars, tideVars>>
    /\ UNCHANGED <<outVars, ioVars, daskVars>>

\* Synthetic tide heights of a time-step: h at pixel 1, rising by g per pixel.
TideRamp(h, g, cells) == [p \in cells |-> FromInt(h + g * (p - 1))]
TideOptions == {<<-2, 0>>, <<0, 0>>, <<0, 2>>}
TidesHires == [1..NTc -> {TideRamp(o[1], o[2], Pixels) : o \in TideOptions}]

\* tide_cutoff_min, tide_cutoff_max (per pixel) as tide_cutoffs may return them.
CutoffOptions ==
    { [min |-> [p \in Pixels |-> FromInt(c[1])], max |-> [p \in Pixels |-> FromInt(c[2])]] :
        c \in {<<-1, 1>>, <<0, 0>>} }

\* tide_bool = (tides_hires >= tide_cutoff_min) & (tides_hires <= tide_cutoff_max)
TideBool(td, cut) ==
    [t \in DOMAIN td |-> [p \in DOMAIN td[t] |->
        LessEq(cut.min[p], td[t][p]) /\ LessEq(td[t][p], cut.max[p])]]

\* A tide filter that keeps a time-step only when all its pixels qualify.
KeptAll(tb) == {t \in DOMAIN tb : \A p \in DOMAIN tb[t] : tb[t][p]}

\* tide_bool.sum(dim=["x", "y"]) > 0: the time-steps with a qualifying pixel.
KeptTimes(tb) == {t \in DOMAIN tb : Cardinality({p \in DOMAIN tb[t] : tb[t][p]}) > 0}

\* The members of a set of time-steps in time order.
RECURSIVE Ascending(_)
Ascending(S) ==
    IF S = {} THEN <<>>
    ELSE LET m == CHOOSE x \in S : \A y \in S : x <= y
         IN  <<m>> \o Ascending(S \ {m})

\* ds.sel(time=...): the chosen time-steps with their time coordinate.
SelTimes(ds, keep) ==
    LET idx == Ascending(keep)
    IN  [time |-> idx, ds |-> [k \in 1..Len(idx) |-> ds[idx[k]]]]

\* sel.where(cond): cond is aligned on the time coordinate of sel.
WhereAligned(sel, cond) ==
    [time |-> sel.time,
     ds |-> WhereDataset(sel.ds, [k \in 1..Len(sel.time) |-> cond[sel.time[k]]])]

\* Cell "Add tide height to the data".
TideMasking ==
    /\ nb = "coast" /\ pc = "masked"
    /\ \E td \in TidesHires, cut \in CutoffOptions :
        /\ tides' = td
        /\ cutoffs' = cut
        /\ data_filtered' = SelTimes(masked, KeptTimes(TideBool(td, cut)))
        /\ data_tide_masked' = WhereAligned(data_filtered', TideBool(td, cut))
    /\ pc' = "tide_masked"
    /\ UNCHANGED <<nb, data, years, masked, scaled, grouped_by_year>>
    /\ UNCHANGED <<mlVars, tideVars>>
    /\ UNCHANGED <<outVars, ioVars, daskVars>>

\* data_tide_masked["mndwi"], ["ndwi"], ["combined"] added to a pixel's bands.
WaterIndices(px) ==
    LET mndwi == NormDiff(px.green, px.swir16)
        ndwi == NormDiff(px.green, px.nir08)
    IN  px @@ [mndwi |-> mndwi, ndwi |-> ndwi, combined |-> Mul(Add(mndwi, ndwi), Half)]

WithWaterIndices(sel) ==
    [time |-> sel.time,
     ds |-> [k \in DOMAIN sel.ds |-> [p \in DOMAIN sel.ds[k] |-> WaterIndices(sel.ds[k][p])]]]

\* The positions of sel whose time-step falls in year y, as a sub-sequence.
InYear(sel, ys, y) ==
    LET pos == Ascending({k \in 1..Len(sel.time) : ys[sel.time[k]] = y})
    IN  [k \in 1..Len(pos) |-> sel.ds[pos[k]]]

\* data_tide_masked[index_name].groupby("time.year").median()
GroupedByYear(sel, ys, band) ==
    [y \in {ys[sel.time[k]] : k \in 1..Len(sel.time)} |->
        [p \in Pixels |-> NanMedian(Series(InYear(sel, ys, y), p, band))]]

\* Cell "Create Combined index": groupby refuses an empty time axis
\* (xarray raises ValueError).
WaterIndex ==
    /\ nb = "coast" /\ pc = "tide_masked"
    /\ data_tide_masked' = WithWaterIndices(data_tide_masked)
    /\ IF data_tide_masked.time = <<>>
       THEN pc' = "raised" /\ grouped_by_year' = grouped_by_year
       ELSE /\ pc' = "grouped"
            /\ grouped_by_year' = GroupedByYear(data_tide_masked', years, "combined")
    /\ UNCHANGED <<nb, data, years, masked, scaled, tides, cutoffs, data_filtered>>
    /\ UNCHANGED <<mlVars, tideVars>>
    /\ IF data_tide_masked.time = <<>>
       THEN UNCHANGED ioVars
       ELSE /\ fetched' = fetched \cup {data_tide_masked.time[k] :
                                            k \in DOMAIN data_tide_masked.time}
            /\ realized' = realized \cup {"compute"}
    /\ UNCHANGED <<outVars, daskVars>>

NextCoast == MaskAndScale \/ TideMasking \/ WaterIndex

-----------------------------------------------------------------------------
(* High- and Low-tide Composites *)

NTt == 3
NQ == 2
TideCells == 1..NQ

\* Synthetic Sentinel-2 spectra (digital numbers, never rescaled in this
\* notebook): land, and a pixel with every band 0.
TideSpectra ==
    << [red |-> 500, green |-> 800, blue |-> 700, swir16 |-> 200, cloud |-> 0],
       [red |-> 0, green |-> 0, blue |-> 0, swir16 |-> 0, cloud |-> 0],
       [red |-> 900, green |-> 400, blue |-> 300, swir16 |-> 1200, cloud |-> 5] >>

\* A synthetic scene: pixel p carries spectrum i + p - 1 (cyclically).
TideScene(i, pattern) ==
    [p \in Pixels |-> Pick(TideSpectra, i + p - 2) @@ [scl |-> SclOf(pattern, p)]]

TideScenes == {TideScene(1, "clear"), TideScene(2, "partial")}

InitTide ==
    /\ nb = "tide"
    /\ pc = "load"
    /\ data \in [1..NTt -> TideScenes]
    /\ years = Unset
    /\ masked = Unset
    /\ scaled = Unset
    /\ median = Unset
    /\ training = Unset
    /\ training_array = Unset
    /\ fitted = Unset
    /\ tides = Unset
    /\ cutoffs = Unset
    /\ data_filtered = Unset
    /\ data_tide_masked = Unset
    /\ grouped_by_year = Unset
    /\ quantiles = Unset
    /\ data_low = Unset
    /\ data_high = Unset
    /\ median_low = Unset
    /\ median_high = Unset
    /\ NothingDerived
    /\ fetched = FetchedByLoad(data)
    /\ realized = {}

\* Dataset.drop_vars(name)
DropVar(ds, name) ==
    [t \in DOMAIN ds |-> [p \in DOMAIN ds[t] |->
        [b \in (DOMAIN ds[t][p]) \ {name} |-> ds[t][p][b]]]]

\* cloud_mask = data.scl.isin(mask_flags); data.where(~cloud_mask)
TideMasked(ds) ==
    DropVar(WhereDataset(AsFloat(ds), S2CloudMask(ds)), "scl")

\* Cell "Cloud masking".
CloudMasking ==
    /\ nb = "tide" /\ pc = "load"
    /\ masked' = TideMasked(data)
    /\ pc' = "masked"
    /\ UNCHANGED <<nb, data, years, scaled, tides>>
    /\ UNCHANGED <<mlVars, coastVars, tideVars>>
    /\ UNCHANGED <<outVars, ioVars, daskVars>>

\* pixel_tides(resample=False): a tide height per time-step and low
\* resolution cell.
TideRamps == {<<0, 0>>, <<1, 0>>, <<2, 0>>, <<0, 3>>}
TidesLowres == [1..NTt -> {TideRamp(o[1], o[2], TideCells) : o \in TideRamps}]

\* Cell "Annotate the data with the tide height".
TideModelling ==
    /\ nb = "tide" /\ pc = "masked"
    /\ tides' \in TidesLowres
    /\ pc' = "tides"
    /\ UNCHANGED <<nb, data, years, masked, scaled>>
    /\ UNCHANGED <<mlVars, coastVars, tideVars>>
    /\ UNCHANGED <<outVars, ioVars, daskVars>>

\* The values of a (time, cell) array, flattened.
RECURSIVE Flatten(_)
Flatten(td) ==
    IF td = <<>> THEN <<>>
    ELSE [k \in 1..Cardinality(DOMAIN td[1]) |-> td[1][k]] \o Flatten(Tail(td))

\* A quantile that takes the lower sample instead of interpolating.
LowerQuantile(values, num, den) ==
    LET sorted == Sort(values)
        n == Len(sorted)
    IN  sorted[((num * (n - 1)) \div den) + 1]

\* DataArray.quantile(num/den): linear interpolation between the two
\* samples around position (num/den) * (n - 1) of the sorted values.
Quantile(values, num, den) ==
    LET sorted == Sort(values)
        n == Len(sorted)
        lo == (num * (n - 1)) \div den
        frac == Rat((num * (n - 1)) % den, den)
        hi == IF lo + 2 <= n THEN lo + 2 ELSE n
    IN  Add(sorted[lo + 1], Mul(frac, Sub(sorted[hi], sorted[lo + 1])))

\* tides_lowres.where(cond, drop=True).time: the time-steps where the
\* condition holds at some cell.
TimesBelow(td, q) == {t \in DOMAIN td : \E c \in DOMAIN td[t] : Less(td[t][c], q)}
TimesAbove(td, q) == {t \in DOMAIN td : \E c \in DOMAIN td[t] : Less(q, td[t][c])}

\* Cell "lowest, highest = tides_lowres.quantile([0.3, 0.7]).values".
SelectScenes ==
    /\ nb = "tide" /\ pc = "tides"
    /\ quantiles' = [lowest |-> Quantile(Flatten(tides), 3, 10),
                     highest |-> Quantile(Flatten(tides), 7, 10)]
    /\ data_low' = SelTimes(masked, TimesBelow(tides, quantiles'.lowest))
    /\ data_high' = SelTimes(masked, TimesAbove(tides, quantiles'.highest))
    /\ pc' = "selected"
    /\ UNCHANGED <<nb, data, years, masked, scaled, tides, median_low, median_high>>
    /\ UNCHANGED <<mlVars, coastVars>>
    /\ UNCHANGED <<outVars, ioVars, daskVars>>

\* Dataset.median("time") of a selection; every sample is NaN when no
\* time-step was selected.
MedianSel(sel, like) ==
    IF sel.time = <<>>
    THEN [p \in DOMAIN like[1] |-> [b \in DOMAIN like[1][p] |-> NaN]]
    ELSE MedianTime(sel.ds)

\* median["mndwi"] added to a pixel's bands.
WithMNDWI(composite) ==
    [p \in DOMAIN composite |->
        composite[p] @@ [mndwi |-> NormDiff(composite[p].green, composite[p].swir16)]]

\* Cell "median_low = data_low.median("time").compute()".
ComputeMedians ==
    /\ nb = "tide" /\ pc = "selected"
    /\ median_low' = MedianSel(data_low, masked)
    /\ median_high' = MedianSel(data_high, masked)
    /\ pc' = "medians"
    /\ UNCHANGED <<nb, data, years, masked, scaled, tides, quantiles, data_low, data_high>>
    /\ UNCHANGED <<mlVars, coastVars>>
    /\ fetched' = fetched \cup {data_low.time[k] : k \in DOMAIN data_low.time}
                       \cup {data_high.time[k] : k \in DOMAIN data_high.time}
    /\ realized' = realized \cup {"compute"}
    /\ UNCHANGED <<outVars, daskVars>>

\* Cell "Calculate MNDWI".
CalculateMNDWI ==
    /\ nb = "tide" /\ pc = "medians"
    /\ median_low' = WithMNDWI(median_low)
    /\ median_high' = WithMNDWI(median_high)
    /\ pc' = "mndwi"
    /\ UNCHANGED <<nb, data, years, masked, scaled, tides, quantiles, data_low, data_high>>
    /\ UNCHANGED <<mlVars, coastVars>>
    /\ UNCHANGED <<outVars, ioVars, daskVars>>

NextTide ==
    CloudMasking \/ TideModelling \/ SelectScenes \/ ComputeMedians \/ CalculateMNDWI

-----------------------------------------------------------------------------
(* The cells that render a preview: they ask for the values of the         *)
(* time-steps they show and change no notebook variable.                   *)

Render(steps) ==
    /\ fetched' = fetched \cup steps
    /\ realized' = realized \cup {"render"}
    /\ UNCHANGED <<nb, pc, data, years, masked, scaled, tides>>
    /\ UNCHANGED <<mlVars, coastVars, tideVars, outVars, daskVars>>

\* ml: scaled.isel(time=0).odc.explore(...)
ExploreScaled == nb = "ml" /\ pc = "scaled" /\ Render({1})

\* coast: subset = data[[...]].isel(time=range(0, 4)); ...plot.imshow(...)
PreviewData ==
    nb = "coast" /\ pc = "load" /\ Render({t \in DOMAIN data : t <= 4})

\* coast: masked_subset = masked[[...]].isel(time=range(0, 4)); ...plot.imshow(...)
PreviewMasked ==
    nb = "coast" /\ pc = "masked" /\ Render({t \in DOMAIN data : t <= 4})

\* tide: clear_image = 0; data[[...]].isel(time=clear_image)...plot.imshow(...)
CompareBefore == nb = "tide" /\ pc = "load" /\ Render({1})

\* tide: masked[[...]].isel(time=clear_image)...plot.imshow(...)
CompareAfter == nb = "tide" /\ pc = "masked" /\ Render({1})

Previews ==
    ExploreScaled \/ PreviewData \/ PreviewMasked \/ CompareBefore \/ CompareAfter

-----------------------------------------------------------------------------
Init == InitML \/ InitCoast \/ InitTide
Next == NextML \/ NextCoast \/ NextTide
Spec == Init /\ [][Next]_vars

-----------------------------------------------------------------------------
(* Mask & Normalize on single samples: one time-step, one pixel, digital   *)
(* numbers around the null value and the ends of the clip range, every     *)
(* scene classification code and QA_PIXEL values with each low bit set.    *)

S2DNs == <<0, 1, 5000, 10000, 10001, 65535>>
LandsatDNs == <<0, 1, 7272, 7273, 20000, 43636, 43637, 65535>>
SclCodes == 0..11
QAValues == {0, 1, 2, 4, 8, 16, 24, 32, 64, 128, 21824, 22280, 23888, 65535}

OneSample(px) == << [p \in {1} |-> px] >>

S2Samples ==
    { [red |-> S2DNs[i], green |-> S2DNs[j], blue |-> Pick(S2DNs, j),
       nir08 |-> Pick(S2DNs, j + 1), swir16 |-> Pick(S2DNs, j + 2), scl |-> c] :
        i \in DOMAIN S2DNs, j \in DOMAIN S2DNs, c \in SclCodes }

S2TideSamples ==
    { [red |-> S2DNs[i], green |-> S2DNs[j], blue |-> Pick(S2DNs, j),
       swir16 |-> Pick(S2DNs, j + 1), cloud |-> Pick(S2DNs, j + 2), scl |-> c] :
        i \in DOMAIN S2DNs, j \in DOMAIN S2DNs, c \in SclCodes }

LandsatSamples ==
    { [red |-> LandsatDNs[i], green |-> LandsatDNs[j], blue |-> Pick(LandsatDNs, j),
       nir08 |-> Pick(LandsatDNs, j + 1), swir16 |-> Pick(LandsatDNs, j + 2),
       qa_pixel |-> q] :
        i \in DOMAIN LandsatDNs, j \in DOMAIN LandsatDNs, q \in QAValues }

InitNorm ==
    /\ nb \in {"ml", "coast", "tide"}
    /\ pc = "load"
    /\ data \in { OneSample(px) :
                    px \in (IF nb = "ml" THEN S2Samples
                            ELSE IF nb = "coast" THEN LandsatSamples
                            ELSE S2TideSamples) }
    /\ years = (IF nb = "coast" THEN <<2023>> ELSE Unset)
    /\ masked = Unset
    /\ scaled = Unset
    /\ median = Unset
    /\ training = Unset
    /\ training_array = Unset
    /\ fitted = Unset
    /\ tides = Unset
    /\ cutoffs = Unset
    /\ data_filtered = Unset
    /\ data_tide_masked = Unset
    /\ grouped_by_year = Unset
    /\ quantiles = Unset
    /\ data_low = Unset
    /\ data_high = Unset
    /\ median_low = Unset
    /\ median_high = Unset
    /\ NothingDerived
    /\ fetched = FetchedByLoad(data)
    /\ realized = {}

NextNorm == PrepareData \/ MaskAndScale \/ CloudMasking
SpecNorm == InitNorm /\ [][NextNorm]_vars

-----------------------------------------------------------------------------
(* The claims *)

\* The output of Mask & Normalize once its cell has run: `scaled` in the
\* machine learning notebook, `masked` in the other two.
Normalized == IF nb = "ml" THEN scaled ELSE masked
NormalizeDone == (nb = "ml" /\ pc = "scaled") \/ (nb # "ml" /\ pc = "masked")

ReflectanceBands(px) == (DOMAIN px) \ {"scl", "qa_pixel", "cloud"}

\* 0 <= v <= 1, by the numerator and denominator of a finite float.
InUnitRange(v) == v[2] > 0 /\ 0 <= v[1] /\ v[1] <= v[2]

\* C1: after Mask & Normalize every present value of every reflectance
\* band lies in [0, 1], for every digital number and quality code, with the
\* Sentinel-2 scaling (machine learning notebook) and the Landsat scaling
\* (coastal change notebook).
C1_PresentReflectanceInUnitRange ==
    (NormalizeDone /\ nb \in {"ml", "coast"}) =>
        \A t \in DOMAIN Normalized : \A p \in DOMAIN Normalized[t] :
            \A b \in ReflectanceBands(data[t][p]) :
                LET v == Normalized[t][p][b]
                IN  IsNaN(v) \/ InUnitRange(v)

\* A Landsat sample above the clip range (digital number 65535 rescales to
\* about 1.6) that is present after Mask & Normalize.
C1_Witness ==
    /\ nb = "coast" /\ pc = "masked"
    /\ \E b \in ReflectanceBands(data[1][1]) :
        data[1][1][b] = 65535 /\ ~IsNaN(masked[1][1][b])

\* The quality code of a sample is in the notebook's invalid set: an SCL
\* code of mask_flags, or bit 3 or bit 4 of QA_PIXEL.
InvalidCode(px) ==
    IF nb = "coast"
    THEN ((px.qa_pixel \div 8) % 2 = 1) \/ ((px.qa_pixel \div 16) % 2 = 1)
    ELSE px.scl \in {1, 3, 8, 9, 10}

\* Digital number x scale + offset, as a fraction.
Rescaled(dn) ==
    IF nb = "coast" THEN Rat(275 * dn - 2000000, 10000000) ELSE Rat(dn, 10000)

\* A finite value moved to the nearest end of [0, 1].
Clamped(r) == IF r[1] < 0 THEN Zero ELSE IF r[1] > r[2] THEN One ELSE r

\* C2 as stated: a sample is absent exactly when its quality code is
\* invalid, its digital number is 0 or its rescaled value is outside
\* [0, 1], and is the rescaled value otherwise.
C2_AbsentWhenOutsideRange ==
    (NormalizeDone /\ nb \in {"ml", "coast"}) =>
        \A t \in DOMAIN Normalized : \A p \in DOMAIN Normalized[t] :
            \A b \in ReflectanceBands(data[t][p]) :
                LET dn == data[t][p][b]
                    out == Normalized[t][p][b]
                    r == Rescaled(dn)
                IN  /\ IsNaN(out) <=>
                          (InvalidCode(data[t][p]) \/ dn = 0 \/ ~InUnitRange(r))
                    /\ ~IsNaN(out) => out = r

\* C2 amended: a sample is absent exactly when its quality code is invalid
\* or its digital number is 0 (Landsat: or the red digital number of its
\* pixel is 0); otherwise it is the rescaled value moved to the nearest end
\* of [0, 1].  The tide composite notebook does not rescale: a sample is
\* absent exactly when its SCL code is invalid and is the digital number
\* otherwise.
C2_AbsentOnlyWhenMaskedOrNull ==
    NormalizeDone =>
        \A t \in DOMAIN Normalized : \A p \in DOMAIN Normalized[t] :
            \A b \in (DOMAIN Normalized[t][p]) \cap (DOMAIN data[t][p]) :
                LET dn == data[t][p][b]
                    out == Normalized[t][p][b]
                IN  IF nb = "tide"
                    THEN out = (IF InvalidCode(data[t][p]) THEN NaN ELSE <<dn, 1>>)
                    ELSE /\ IsNaN(out) <=>
                              \/ InvalidCode(data[t][p])
                              \/ dn = 0
                              \/ nb = "coast" /\ data[t][p].red = 0
                         /\ ~IsNaN(out) => out = Clamped(Rescaled(dn))

\* A Sentinel-2 sample with a valid code whose rescaled value is above 1
\* (digital number 10001) and whose output is 1, not absent.
C2_Witness ==
    /\ nb = "ml" /\ pc = "scaled"
    /\ data[1][1].scl \notin mask_flags
    /\ data[1][1].red = 10001
    /\ scaled[1][1].red = One

-----------------------------------------------------------------------------
(* The median, stated by ranks *)

CountLess(x, vals) == Cardinality({i \in DOMAIN vals : Less(vals[i], x)})
CountLessEq(x, vals) == Cardinality({i \in DOMAIN vals : LessEq(vals[i], x)})

\* x is the k-th smallest of vals.
IsKth(x, vals, k) ==
    /\ \E i \in DOMAIN vals : vals[i] = x
    /\ CountLess(x, vals) <= k - 1
    /\ CountLessEq(x, vals) >= k

\* m is the median of the samples vals, none of them absent: absent when
\* there is no sample, the middle sample of an odd number, the mean of the
\* two middle samples of an even number.
IsMedianOf(m, vals) ==
    LET n == Len(vals)
    IN  IF n = 0 THEN IsNaN(m)
        ELSE IF n % 2 = 1 THEN IsKth(m, vals, (n + 1) \div 2)
        ELSE \E i, j \in DOMAIN vals :
                /\ IsKth(vals[i], vals, n \div 2)
                /\ IsKth(vals[j], vals, n \div 2 + 1)
                /\ m = Mul(Add(vals[i], vals[j]), Half)

\* The scenes of a dataset other than scene c, in time order.
Others(ds, c) == [t \in 1..(Len(ds) - 1) |-> IF t < c THEN ds[t] ELSE ds[t + 1]]

\* Scene c is flagged entirely cloudy (codes 8 and 9) and no pixel of
\* another scene carries a masked code.
OnlyCloudyScene(c) ==
    /\ \A p \in DOMAIN data[c] : data[c][p].scl \in {8, 9}
    /\ \A t \in (DOMAIN data) \ {c} : \A p \in DOMAIN data[t] :
           data[t][p].scl \notin mask_flags

PresentOf(s) ==
    LET NotAbsent(v) == ~IsNaN(v)
    IN  SelectSeq(s, NotAbsent)

\* m is the composite of the series s: the median of its present samples,
\* absent exactly when every sample is absent.
IsCompositeOf(m, s) ==
    /\ IsMedianOf(m, PresentOf(s))
    /\ IsNaN(m) <=> \A t \in DOMAIN s : IsNaN(s[t])

\* The series of band b at pixel p of a selection; empty when no time-step
\* was selected.
SeriesOfSel(sel, p, b) == [k \in 1..Len(sel.time) |-> sel.ds[k][p][b]]

\* The positions of data_tide_masked that fall in year y.
PositionsInYear(y) ==
    {k \in 1..Len(data_tide_masked.time) : years[data_tide_masked.time[k]] = y}

\* C4: every temporal median composite is at every pixel the median of the
\* samples present there, skipping the absent ones, and is absent only
\* when the pixel is absent at every time-step.
C4_MedianSkipsAbsent ==
    /\ (nb = "ml" /\ pc = "median") =>
           \A p \in DOMAIN median : \A b \in DOMAIN median[p] :
               IsCompositeOf(median[p][b], [t \in DOMAIN scaled |-> scaled[t][p][b]])
    /\ (nb = "tide" /\ pc = "medians") =>
           \A p \in DOMAIN masked[1] : \A b \in DOMAIN masked[1][p] :
               /\ IsCompositeOf(median_low[p][b], SeriesOfSel(data_low, p, b))
               /\ IsCompositeOf(median_high[p][b], SeriesOfSel(data_high, p, b))
    /\ (nb = "coast" /\ pc = "grouped") =>
           \A y \in DOMAIN grouped_by_year : \A p \in DOMAIN grouped_by_year[y] :
               LET dtm == data_tide_masked
                   s == [k \in 1..Len(dtm.time) |->
                            IF k \in PositionsInYear(y)
                            THEN dtm.ds[k][p].combined ELSE NaN]
               IN  IsCompositeOf(grouped_by_year[y][p], s)

\* A pixel of the Sentinel-2 composite that is absent at three time-steps
\* and present at one: the composite is that one sample, 0.04.
C4_Witness ==
    /\ nb = "ml" /\ pc = "median"
    /\ Cardinality({t \in DOMAIN scaled : IsNaN(scaled[t][1].red)}) = Len(scaled) - 1
    /\ \E t \in DOMAIN scaled : scaled[t][1].red = <<1, 25>>
    /\ median[1].red = <<1, 25>>

\* Both operands are present and their sum is zero.
ZeroSum(a, b) == ~IsNaN(a) /\ ~IsNaN(b) /\ Add(a, b) = Zero

\* Both operands are present and equal.
ZeroDifference(a, b) == ~IsNaN(a) /\ ~IsNaN(b) /\ a = b

\* A normalized difference with a zero denominator is absent: NDVI and
\* NDWI of the Sentinel-2 notebook, MNDWI and NDWI of the Landsat notebook,
\* MNDWI of the tide composites.
ZeroDenominatorAbsent ==
    /\ (nb = "ml" /\ pc = "scaled") =>
           \A t \in DOMAIN scaled : \A p \in DOMAIN scaled[t] :
               LET px == scaled[t][p]
               IN  /\ ZeroSum(px.nir08, px.red) => IsNaN(px.ndvi)
                   /\ ZeroSum(px.green, px.nir08) => IsNaN(px.ndwi)
    /\ (nb = "coast" /\ pc = "grouped") =>
           \A k \in DOMAIN data_tide_masked.ds : \A p \in DOMAIN data_tide_masked.ds[k] :
               LET px == data_tide_masked.ds[k][p]
               IN  /\ ZeroSum(px.green, px.swir16) => IsNaN(px.mndwi)
                   /\ ZeroSum(px.green, px.nir08) => IsNaN(px.ndwi)
    /\ (nb = "tide" /\ pc = "mndwi") =>
           \A p \in DOMAIN median_low :
               /\ ZeroSum(median_low[p].green, median_low[p].swir16)
                      => IsNaN(median_low[p].mndwi)
               /\ ZeroSum(median_high[p].green, median_high[p].swir16)
                      => IsNaN(median_high[p].mndwi)

\* The MVI samples of pixel p at the time-steps where swir16 differs from
\* green, in time order.
MVIWithDenominator(p) ==
    LET s == [t \in DOMAIN scaled |->
                 IF ZeroDifference(scaled[t][p].swir16, scaled[t][p].green)
                 THEN NaN ELSE scaled[t][p].mvi]
    IN  PresentOf(s)

\* C5 as stated: an index whose denominator is zero is absent, MVI with
\* swir16 equal to green included, and the temporal median of MVI takes
\* only the time-steps where the denominator is not zero.
C5_ZeroDenominatorAbsent ==
    /\ ZeroDenominatorAbsent
    /\ (nb = "ml" /\ pc = "scaled") =>
           \A t \in DOMAIN scaled : \A p \in DOMAIN scaled[t] :
               ZeroDifference(scaled[t][p].swir16, scaled[t][p].green)
                   => IsNaN(scaled[t][p].mvi)
    /\ (nb = "ml" /\ pc = "median") =>
           \A p \in DOMAIN median : IsMedianOf(median[p].mvi, MVIWithDenominator(p))

\* C5 amended: a normalized difference with a zero denominator is absent.
\* MVI with swir16 equal to green is absent only when nir08 equals green
\* as well; it is 1 when nir08 is above green and -1 when nir08 is below,
\* and the temporal median of MVI counts these 1 and -1 as present samples.
C5_ZeroDenominatorMVISaturates ==
    /\ ZeroDenominatorAbsent
    /\ (nb = "ml" /\ pc = "scaled") =>
           \A t \in DOMAIN scaled : \A p \in DOMAIN scaled[t] :
               LET px == scaled[t][p]
               IN  ZeroDifference(px.swir16, px.green) =>
                       px.mvi = (IF Less(px.green, px.nir08) THEN One
                                 ELSE IF Less(px.nir08, px.green) THEN MinusOne
                                 ELSE NaN)
    /\ (nb = "ml" /\ pc = "median") =>
           \A p \in DOMAIN median :
               IsMedianOf(median[p].mvi,
                          PresentOf([t \in DOMAIN scaled |-> scaled[t][p].mvi]))

\* A Sentinel-2 pixel whose swir16 equals green at every time-step, with
\* nir08 above green at some and below at others: MVI is 1 and -1 there and
\* the composite MVI is 0.
C5_Witness ==
    /\ nb = "ml" /\ pc = "median"
    /\ \A t \in DOMAIN scaled : ZeroDifference(scaled[t][2].swir16, scaled[t][2].green)
    /\ \E t \in DOMAIN scaled : scaled[t][2].mvi = One
    /\ \E t \in DOMAIN scaled : scaled[t][2].mvi = MinusOne
    /\ median[2].mvi = Zero

\* A Landsat pixel whose green and swir16 are both clamped to 0: MNDWI is
\* absent there.
C5_WitnessNormDiff ==
    /\ nb = "coast" /\ pc = "grouped"
    /\ \E k \in DOMAIN data_tide_masked.ds : \E p \in DOMAIN data_tide_masked.ds[k] :
           ZeroSum(data_tide_masked.ds[k][p].green, data_tide_masked.ds[k][p].swir16)

-----------------------------------------------------------------------------
(* Tide selections, stated on the integer tide heights *)

\* The tide heights of all time-steps and cells, as a bag of integers
\* indexed by (time-step, cell).
TideHeights == [tc \in (DOMAIN tides) \X TideCells |-> tides[tc[1]][tc[2]][1]]

\* The k-th smallest tide height.
KthHeight(k) ==
    CHOOSE x \in {TideHeights[tc] : tc \in DOMAIN TideHeights} :
        /\ Cardinality({tc \in DOMAIN TideHeights : TideHeights[tc] < x}) <= k - 1
        /\ Cardinality({tc \in DOMAIN TideHeights : TideHeights[tc] <= x}) >= k

\* Ten times the (tenths/10)-quantile of the tide heights, interpolated
\* linearly between the two heights around position tenths/10 * (n - 1).
TenQuantile(tenths) ==
    LET n == Cardinality(DOMAIN TideHeights)
        lo == (tenths * (n - 1)) \div 10
        r == (tenths * (n - 1)) % 10
    IN  IF r = 0 THEN 10 * KthHeight(lo + 1)
        ELSE (10 - r) * KthHeight(lo + 1) + r * KthHeight(lo + 2)

\* sel holds exactly the time-steps of S, in time order, with the masked
\* scenes of those time-steps.
SelectsExactly(sel, S) ==
    /\ {sel.time[k] : k \in DOMAIN sel.time} = S
    /\ \A k \in DOMAIN sel.time : k > 1 => sel.time[k - 1] < sel.time[k]
    /\ DOMAIN sel.ds = DOMAIN sel.time
    /\ \A k \in DOMAIN sel.time : sel.ds[k] = masked[sel.time[k]]

InCutoffRange(t, p) ==
    /\ cutoffs.min[p][1] <= tides[t][p][1]
    /\ tides[t][p][1] <= cutoffs.max[p][1]

QualifyingTimes == {t \in DOMAIN masked : \E p \in Pixels : InCutoffRange(t, p)}

\* C7: the tide filter keeps exactly the time-steps with at least one pixel
\* inside the cutoff range, in time order; the others are gone before the
\* yearly median is taken; in a kept time-step every pixel outside the
\* range is absent and every pixel inside keeps its bands.
C7_KeepsTimesWithQualifyingPixel ==
    (nb = "coast" /\ data_filtered # Unset) =>
        /\ SelectsExactly(data_filtered, QualifyingTimes)
        /\ data_tide_masked.time = data_filtered.time
        /\ \A k \in DOMAIN data_tide_masked.ds : \A p \in Pixels :
               \A b \in DOMAIN masked[1][p] :
                   data_tide_masked.ds[k][p][b] =
                       (IF InCutoffRange(data_filtered.time[k], p)
                        THEN masked[data_filtered.time[k]][p][b] ELSE NaN)
        /\ pc = "grouped" =>
               DOMAIN grouped_by_year = {years[t] : t \in QualifyingTimes}

\* Two time-steps of different years: the first has no pixel in the range
\* and is removed, the second has pixel 1 inside and pixel 2 outside; the
\* yearly medians hold the second year only.
C7_Witness ==
    /\ nb = "coast" /\ pc = "grouped"
    /\ \A p \in Pixels : ~InCutoffRange(1, p)
    /\ InCutoffRange(2, 1) /\ ~InCutoffRange(2, 2)
    /\ data_filtered.time[1] = 2
    /\ IsNaN(data_tide_masked.ds[1][2].red) /\ ~IsNaN(masked[2][2].red)
    /\ years[1] = 2022 /\ DOMAIN grouped_by_year = {2023}

\* The training table before the incomplete rows are dropped.
JoinedTable == JoinedRows(median, training)

IncompleteRows ==
    {i \in DOMAIN JoinedTable :
        \E b \in DOMAIN JoinedTable[i].obs : IsNaN(JoinedTable[i].obs[b])}

\* C8: dropping the incomplete rows removes exactly the rows with an absent
\* feature; the rows kept are unchanged and in their order; the classifier
\* is fitted on rows without an absent feature only.
C8_DropsExactlyIncompleteRows ==
    (nb = "ml" /\ training # Unset) =>
        /\ Len(training_array) = Len(JoinedTable) - Cardinality(IncompleteRows)
        /\ \A k \in DOMAIN training_array :
               /\ training_array[k].index \in (DOMAIN JoinedTable) \ IncompleteRows
               /\ training_array[k] = JoinedTable[training_array[k].index]
               /\ k > 1 => training_array[k - 1].index < training_array[k].index
        /\ pc = "fitted" =>
               /\ DOMAIN fitted.observations = DOMAIN training_array
               /\ \A k \in DOMAIN training_array :
                      /\ fitted.classes[k] = training_array[k].Class
                      /\ fitted.observations[k] = training_array[k].obs
                      /\ \A b \in DOMAIN fitted.observations[k] :
                             ~IsNaN(fitted.observations[k][b])

\* A fit after some, but not all, rows were dropped.
C8_Witness ==
    /\ nb = "ml" /\ pc = "fitted"
    /\ IncompleteRows # {}
    /\ 0 < Len(training_array) /\ Len(training_array) < Len(training)

\* y is the exact negation of x; an absent x has an absent negation.
IsNegationOf(y, x) == IF IsNaN(x) THEN IsNaN(y) ELSE y = <<-x[1], x[2]>>

\* C9: a normalized difference computed with its two bands swapped is the
\* exact negation of the index as computed, and absent where the index is
\* absent: NDVI and NDWI of the Sentinel-2 notebook, MNDWI and NDWI of the
\* Landsat notebook, MNDWI of the tide composites.
C9_SwapNegates ==
    /\ (nb = "ml" /\ pc = "scaled") =>
           \A t \in DOMAIN scaled : \A p \in DOMAIN scaled[t] :
               LET px == scaled[t][p]
               IN  /\ IsNegationOf(NormDiff(px.red, px.nir08), px.ndvi)
                   /\ IsNegationOf(NormDiff(px.nir08, px.green), px.ndwi)
    /\ (nb = "coast" /\ pc = "grouped") =>
           \A k \in DOMAIN data_tide_masked.ds : \A p \in DOMAIN data_tide_masked.ds[k] :
               LET px == data_tide_masked.ds[k][p]
               IN  /\ IsNegationOf(NormDiff(px.swir16, px.green), px.mndwi)
                   /\ IsNegationOf(NormDiff(px.nir08, px.green), px.ndwi)
    /\ (nb = "tide" /\ pc = "mndwi") =>
           \A p \in DOMAIN median_low :
               /\ IsNegationOf(NormDiff(median_low[p].swir16, median_low[p].green),
                               median_low[p].mndwi)
               /\ IsNegationOf(NormDiff(median_high[p].swir16, median_high[p].green),
                               median_high[p].mndwi)

\* A vegetation pixel (red 0.04, nir08 0.3): NDVI is 13/17 and the swapped
\* index -13/17.
C9_Witness ==
    /\ nb = "ml" /\ pc = "scaled"
    /\ scaled[1][1].ndvi = <<13, 17>>
    /\ NormDiff(scaled[1][1].red, scaled[1][1].nir08) = <<-13, 17>>

\* The median composites alone: the Sentinel-2 composite of a vegetation
\* scene, a partly flagged scene and a saturated scene in every order, and
\* the tide composites.
MedianScenes == {S2Scene(1, "clear"), S2Scene(1, "partial"), S2Scene(3, "clear")}
InitMedian == LoadedML(MedianScenes) \/ InitTide
NextMedian == PrepareData \/ CreateMedian \/ NextTide
SpecMedian == InitMedian /\ [][NextMedian]_vars

\* The orders of n time-steps: the permutations of 1..n.
TimeOrders(n) ==
    {f \in [1..n -> 1..n] : \A i, j \in 1..n : f[i] = f[j] => i = j}

\* The orders of every number of time-steps a composite is taken over.
OrdersOf == [n \in 0..(IF NT > NTt THEN NT ELSE NTt) |-> TimeOrders(n)]

\* The time-steps of ds in the order f.
Permuted(ds, f) == [t \in DOMAIN ds |-> ds[f[t]]]

\* C10: the temporal median composite of the time-steps taken in any other
\* order is the composite as computed, for the Sentinel-2 composite and for
\* the low and high tide composites, time-steps with absent pixels
\* included.
C10_MedianOrderInvariant ==
    /\ (nb = "ml" /\ pc = "median") =>
           \A f \in OrdersOf[Len(scaled)] :
               MedianTime(Permuted(scaled, f)) = median
    /\ (nb = "tide" /\ pc = "medians") =>
           /\ \A f \in OrdersOf[Len(data_low.ds)] :
                  MedianSel([time |-> data_low.time, ds |-> Permuted(data_low.ds, f)],
                            masked) = median_low
           /\ \A f \in OrdersOf[Len(data_high.ds)] :
                  MedianSel([time |-> data_high.time, ds |-> Permuted(data_high.ds, f)],
                            masked) = median_high

\* A composite of four time-steps that differ at pixel 1 (red 0.04, absent,
\* 1, 0.04): the composite red there is 0.04 in every order.
C10_Witness ==
    /\ nb = "ml" /\ pc = "median"
    /\ scaled[1][1].red = <<1, 25>> /\ IsNaN(scaled[2][1].red)
    /\ scaled[3][1].red = One /\ scaled[4][1].red = <<1, 25>>
    /\ median[1].red = <<1, 25>>

\* The pixels whose centre is nearest to training point i.
NearestPixels(i) ==
    {q \in Pixels : \A r \in Pixels :
        Abs(training[i].x - 10 * q) <= Abs(training[i].x - 10 * r)}

RowOfPoint(i) == {k \in DOMAIN training_array : training_array[k].index = i}

\* C12: every training row pairs the class of its own point with the
\* composite values of the pixel nearest to that point, no two rows belong
\* to one point, and a point without a row is one whose nearest pixel has
\* an absent value (its row was dropped as incomplete).
C12_RowsAlignedWithPoints ==
    (nb = "ml" /\ pc = "training") =>
        /\ \A k \in DOMAIN training_array :
               LET i == training_array[k].index
               IN  /\ i \in DOMAIN training
                   /\ RowOfPoint(i) = {k}
                   /\ training_array[k].Class = training[i].Class
                   /\ \E q \in NearestPixels(i) : training_array[k].obs = median[q]
        /\ \A i \in DOMAIN training :
               RowOfPoint(i) = {} =>
                   \E q \in NearestPixels(i) : \E b \in DOMAIN median[q] :
                       IsNaN(median[q][b])

\* A training table that kept every point, with rows 1 and 2 of different
\* classes sampled from different pixels.
C12_Witness ==
    /\ nb = "ml" /\ pc = "training"
    /\ Len(training_array) = Len(training)
    /\ training_array[1].Class # training_array[2].Class
    /\ NearestPixels(1) # NearestPixels(2)
    /\ training_array[1].obs # training_array[2].obs

\* Bit k of the integer n is set.
BitSet(n, k) == (n \div (2 ^ k)) % 2 = 1

\* Every band of the normalized sample is absent.
AllBandsAbsent(px) == \A b \in DOMAIN px : IsNaN(px[b])

\* C19: a Landsat pixel has all its bands masked exactly when bit 3 or bit
\* 4 of qa_pixel is set or its red digital number is 0, whatever the other
\* bits and whether or not the qa_pixel value is one of the Sentinel-2
\* codes; a Sentinel-2 pixel has all its bands masked when its SCL code is
\* 1, 3, 8, 9 or 10, and with any other code, bits 3 and 4 set or not, a
\* band is absent only for a null digital number.
C19_MaskPolicyPerSensor ==
    NormalizeDone =>
        \A t \in DOMAIN data : \A p \in DOMAIN data[t] :
            IF nb = "coast"
            THEN AllBandsAbsent(masked[t][p]) <=>
                     \/ BitSet(data[t][p].qa_pixel, 3)
                     \/ BitSet(data[t][p].qa_pixel, 4)
                     \/ data[t][p].red = 0
            ELSE /\ data[t][p].scl \in {1, 3, 8, 9, 10}
                        => AllBandsAbsent(Normalized[t][p])
                 /\ data[t][p].scl \notin {1, 3, 8, 9, 10} =>
                        \A b \in (DOMAIN Normalized[t][p]) \cap (DOMAIN data[t][p]) :
                            IsNaN(Normalized[t][p][b])
                                => (nb = "ml" /\ data[t][p][b] = 0)

\* A Landsat pixel whose qa_pixel is 1, a masked code of the Sentinel-2
\* list with bits 3 and 4 unset, and whose red is not null: it is kept.
C19_Witness ==
    /\ nb = "coast" /\ pc = "masked"
    /\ data[1][1].qa_pixel = 1 /\ data[1][1].red # 0
    /\ ~IsNaN(masked[1][1].red)

\* A Sentinel-2 pixel whose SCL code 11 has bit 3 set: it is kept.
C19_WitnessSentinel ==
    /\ nb = "ml" /\ pc = "scaled"
    /\ data[1][1].scl = 11 /\ data[1][1].red # 0
    /\ ~IsNaN(scaled[1][1].red)

\* Every pixel of every time-step carries a masked SCL code.
AllCloudy ==
    \A t \in DOMAIN data : \A p \in DOMAIN data[t] : data[t][p].scl \in mask_flags

\* C17 as stated: when a filter leaves nothing to process the run ends with
\* an error and neither a classifier is fitted nor a composite produced:
\* no composite of an entirely cloud-masked stack, no fit of an empty
\* training table, no yearly composite and no tide composite of an empty
\* selection of time-steps.
C17_EmptyResultReported ==
    /\ (nb = "ml" /\ AllCloudy) => median = Unset
    /\ (nb = "ml" /\ training_array = <<>> /\ pc \notin {"load", "scaled", "median", "training"})
           => (pc = "raised" /\ fitted = Unset)
    /\ (nb = "coast" /\ data_filtered # Unset /\ pc # "tide_masked") =>
           (data_filtered.time = <<>> => (pc = "raised" /\ grouped_by_year = Unset))
    /\ (nb = "tide" /\ data_low # Unset) =>
           /\ data_low.time = <<>> => median_low = Unset
           /\ data_high.time = <<>> => median_high = Unset

\* C20 as stated: no time-step is selected for both the low and the high
\* tide composite; the low selection holds only time-steps with a tide
\* height below the 0.3 quantile and the high selection only time-steps
\* with a tide height above the 0.7 quantile.
C20_SelectionsDisjoint ==
    (nb = "tide" /\ pc = "selected") =>
        /\ \A k \in DOMAIN data_low.time : \A j \in DOMAIN data_high.time :
               data_low.time[k] # data_high.time[j]
        /\ \A k \in DOMAIN data_low.time : \E c \in TideCells :
               10 * tides[data_low.time[k]][c][1] < TenQuantile(3)
        /\ \A k \in DOMAIN data_high.time : \E c \in TideCells :
               10 * tides[data_high.time[k]][c][1] > TenQuantile(7)

-----------------------------------------------------------------------------
(* The notebooks with their preview cells *)

InitLazy == LoadedML(MedianScenes) \/ InitCoast \/ InitTide
NextLazy == NextML \/ NextCoast \/ NextTide \/ Previews
SpecLazy == InitLazy /\ [][NextLazy]_vars

\* The cells that build the graph: cloud masking, scaling, indices, tide
\* masking, tide modelling and the selection of scenes.
GraphCells ==
    \/ PrepareData \/ MaskAndScale \/ CloudMasking
    \/ TideMasking \/ TideModelling \/ SelectScenes

\* C15 as stated: no time-step is read from storage before a compute call.
C15_NoFetchBeforeCompute ==
    "compute" \notin realized => fetched = {}

\* C15 (amended): no time-step is read from storage before a cell asks for
\* values, by a compute call or by rendering a preview: nothing is read by
\* the load, and the cells that mask, scale and derive indices read nothing.
C15_NoFetchBeforeValuesAsked ==
    /\ [](realized = {} => fetched = {})
    /\ [][GraphCells => fetched' = fetched]_vars

\* The Sentinel-2 stack masked, scaled and indexed with nothing read yet.
C15_Witness ==
    /\ nb = "ml" /\ pc = "scaled"
    /\ scaled # Unset /\ realized = {} /\ fetched = {}

\* The first read, made by the preview of the first time-step before the
\* median is computed.
C15_WitnessPreview ==
    /\ nb = "ml" /\ pc = "scaled"
    /\ realized = {"render"} /\ fetched = {1}

-----------------------------------------------------------------------------
(* The median of the Sentinel-2 notebook run as tile tasks on the workers  *)
(* of the DaskClient.  The tile size of the load is scaled from 2048       *)
(* pixels to ChunkX pixels.                                                *)

ChunkX == 1
n_workers == 2

Workers == 1..n_workers
Tiles == 1..((NP + ChunkX - 1) \div ChunkX)

OverlappingWindow(k) == {p \in Pixels : (k - 1) * ChunkX <= p /\ p <= k * ChunkX}

\* The pixels of tile k.
Window(k) == {p \in Pixels : (k - 1) * ChunkX < p /\ p <= k * ChunkX}

\* The graph of one tile: read the tile's window of every time-step, mask,
\* scale, derive the indices and take the median over time.
TileTask(k) ==
    LET win == [t \in DOMAIN data |-> [p \in Window(k) |-> data[t][p]]]
    IN  MedianTime(S2Scaled(S2Masked(win)))

Idle(w) == \A k \in Tiles : ~(tasks[k].state = "running" /\ tasks[k].worker = w)

\* median = scaled.median("time").compute(): the graph is handed to the
\* scheduler and the call blocks.
SubmitMedian ==
    /\ nb = "ml" /\ pc = "scaled"
    /\ pc' = "computing"
    /\ tasks' = [k \in Tiles |-> [state |-> "pending", worker |-> 0]]
    /\ partial' = [p \in {} |-> 0]
    /\ written' = [p \in Pixels |-> 0]
    /\ realized' = realized \cup {"compute"}
    /\ UNCHANGED <<nb, data, years, masked, scaled, tides, fetched>>
    /\ UNCHANGED <<mlVars, coastVars, tideVars, outVars>>

\* An idle worker takes a pending tile and reads its inputs.
StartTile(w, k) ==
    /\ nb = "ml" /\ pc = "computing"
    /\ tasks[k].state = "pending"
    /\ Idle(w)
    /\ tasks' = [tasks EXCEPT ![k] = [state |-> "running", worker |-> w]]
    /\ fetched' = fetched \cup DOMAIN data
    /\ UNCHANGED <<nb, pc, data, years, masked, scaled, tides, realized>>
    /\ UNCHANGED <<mlVars, coastVars, tideVars, outVars, partial, written>>

\* A worker finishes its tile and writes the tile's window of the output.
FinishTile(w, k) ==
    /\ nb = "ml" /\ pc = "computing"
    /\ tasks[k].state = "running" /\ tasks[k].worker = w
    /\ tasks' = [tasks EXCEPT ![k] = [state |-> "done", worker |-> w]]
    /\ partial' = [p \in (DOMAIN partial) \cup Window(k) |->
                      IF p \in Window(k) THEN TileTask(k)[p] ELSE partial[p]]
    /\ written' = [p \in Pixels |->
                      IF p \in Window(k) THEN written[p] + 1 ELSE written[p]]
    /\ UNCHANGED <<nb, pc, data, years, masked, scaled, tides, ioVars>>
    /\ UNCHANGED <<mlVars, coastVars, tideVars, outVars>>

\* compute() returns once every tile is done, with the assembled output.
GatherMedian ==
    /\ nb = "ml" /\ pc = "computing"
    /\ \A k \in Tiles : tasks[k].state = "done"
    /\ median' = partial
    /\ pc' = "median"
    /\ UNCHANGED <<nb, data, years, masked, scaled, tides, ioVars>>
    /\ UNCHANGED <<training, training_array, fitted, coastVars, tideVars>>
    /\ UNCHANGED <<outVars, daskVars>>

InitTiles == LoadedML(MedianScenes)

NextTiles ==
    \/ PrepareData
    \/ SubmitMedian
    \/ \E w \in Workers : \E k \in Tiles : StartTile(w, k)
    \/ \E w \in Workers : \E k \in Tiles : FinishTile(w, k)
    \/ GatherMedian

SpecTiles == InitTiles /\ [][NextTiles]_vars

-----------------------------------------------------------------------------
(* The coastline notebook continued: points along a contour, their annual  *)
(* movements and regressions, and the label of each point.                 *)

NShore == 2
baseline_year == 2023

\* The rates and the p-values a regression may return.
Rates == <<<<-1, 2>>, <<0, 1>>, <<1, 2>>>>
Significances == <<<<1, 100>>, <<1, 20>>, <<3, 50>>, NaN>>

RegressionRow(k) ==
    [rate_time |-> Rates[(k % Len(Rates)) + 1],
     sig_time |-> Significances[(k % Len(Significances)) + 1]]

RegressionTables ==
    {[i \in 1..NShore |-> RegressionRow(k + i)] :
        k \in 1..(Len(Rates) * Len(Significances))}

\* The queried date range "2019/2024", with the scenes of its last years.
ChangeYearSeqs ==
    {ys \in [1..NTc -> {2022, 2023, 2024}] : \A t \in 1..(NTc - 1) : ys[t] <= ys[t + 1]}

AtOrAboveCutoff(row) == LessEq(<<1, 20>>, row.sig_time)

\* points_gdf.sig_time > 0.05
AboveCutoff(row) == Less(<<1, 20>>, row.sig_time)

\* "retreated" if x.rate_time < 0 else "grown"
SignedLabel(row) ==
    IF Less(row.rate_time, FromInt(0)) THEN "retreated" ELSE "grown"

\* points_on_line(contour_gdf, index=2023, ...), annual_movements(...,
\* baseline_year=2023, ...) and calculate_regressions: the contour of 2023
\* is looked up among the yearly contours, which fails when it is missing.
ExtractPoints ==
    /\ nb = "coast" /\ pc = "grouped"
    /\ IF baseline_year \in DOMAIN grouped_by_year
       THEN /\ pc' = "points"
            /\ \E table \in RegressionTables :
                   points_gdf' = [contour |-> baseline_year,
                                  baseline_year |-> baseline_year,
                                  rows |-> table]
       ELSE pc' = "raised" /\ points_gdf' = points_gdf
    /\ UNCHANGED <<nb, data, years, masked, scaled, tides, predicted_da>>
    /\ UNCHANGED <<mlVars, coastVars, tideVars, ioVars, daskVars>>

\* points_gdf["Coastal change"] = points_gdf.apply(...), then
\* points_gdf.loc[points_gdf.sig_time > 0.05, "Coastal change"] = "No significant trend ..."
LabelPoints ==
    /\ nb = "coast" /\ pc = "points"
    /\ LET applied == [i \in DOMAIN points_gdf.rows |->
                          points_gdf.rows[i] @@
                              [Coastal_change |-> SignedLabel(points_gdf.rows[i])]]
           labelled == [i \in DOMAIN applied |->
                          IF AboveCutoff(applied[i])
                          THEN [applied[i] EXCEPT !.Coastal_change = "no significant trend"]
                          ELSE applied[i]]
       IN  points_gdf' = [points_gdf EXCEPT !.rows = labelled]
    /\ pc' = "labelled"
    /\ UNCHANGED <<nb, data, years, masked, scaled, tides, predicted_da>>
    /\ UNCHANGED <<mlVars, coastVars, tideVars, ioVars, daskVars>>

InitChange == LoadedCoast({LandsatScene(1, "clear")}, ChangeYearSeqs)
NextChange == NextCoast \/ ExtractPoints \/ LabelPoints
SpecChange == InitChange /\ [][NextChange]_vars

\* C13: a point whose p-value is above 0.05 is labelled "no significant
\* trend"; any other point is labelled with the sign of its rate, retreated
\* when the rate is negative and grown when it is positive.
C13_LabelBySignificance ==
    (nb = "coast" /\ pc = "labelled") =>
        \A i \in DOMAIN points_gdf.rows :
            LET row == points_gdf.rows[i]
            IN  IF Less(<<1, 20>>, row.sig_time)
                THEN row.Coastal_change = "no significant trend"
                ELSE /\ Less(row.rate_time, FromInt(0)) => row.Coastal_change = "retreated"
                     /\ Less(FromInt(0), row.rate_time) => row.Coastal_change = "grown"

\* A table with a retreating point exactly at the cutoff and a point above it.
C13_Witness ==
    /\ nb = "coast" /\ pc = "labelled"
    /\ \E i, j \in DOMAIN points_gdf.rows :
          /\ points_gdf.rows[i].sig_time = <<1, 20>>
          /\ points_gdf.rows[i].Coastal_change = "retreated"
          /\ points_gdf.rows[j].sig_time = <<3, 50>>
          /\ points_gdf.rows[j].Coastal_change = "no significant trend"

MostRecentYear == CHOOSE y \in DOMAIN grouped_by_year :
                      \A z \in DOMAIN grouped_by_year : z <= y

\* C14: the points are sampled from the contour of the most recent year of
\* the yearly composites, which is also the baseline year of the movements.
C14_BaselineIsMostRecentYear ==
    (nb = "coast" /\ points_gdf # Unset) =>
        /\ points_gdf.contour = MostRecentYear
        /\ points_gdf.baseline_year = MostRecentYear

-----------------------------------------------------------------------------
(* The Sentinel-2 notebook on a grid of NY rows of NP pixels, up to the    *)
(* prediction.  Pixel (y, x) of a dataset is numbered (y - 1) * NP + x, so *)
(* that the first row is Pixels, where the training points lie.            *)

NY == 2

GridCells == 1..(NY * NP)

S2GridScene(i, pattern) ==
    [c \in GridCells |-> Pick(S2Spectra, i + c - 2) @@ [scl |-> SclOf(pattern, c)]]

GridScenes == {S2GridScene(1, "clear"), S2GridScene(2, "partial")}

\* composite.sel(y=y, x=x)
At(composite, y, x) == composite[(y - 1) * NP + x]

\* median.to_array(): the values of one pixel along the variable dimension.
ToArray(px) == [j \in 1..Len(DataVars) |-> px[DataVars[j]]]

\* .stack(dims=["y", "x"]).transpose(): one row per pixel, y outermost.
Stack(composite, ny, nx) ==
    [k \in 1..(ny * nx) |->
        ToArray(At(composite, ((k - 1) \div nx) + 1, ((k - 1) % nx) + 1))]

\* stacked_arrays.fillna(0)
FillNa(rows) ==
    [k \in DOMAIN rows |-> [j \in DOMAIN rows[k] |->
        IF IsNaN(rows[k][j]) THEN FromInt(0) ELSE rows[k][j]]]

ReshapeColumnMajor(flat, ny, nx) ==
    [y \in 1..ny |-> [x \in 1..nx |-> flat[(x - 1) * ny + y]]]

\* predicted.reshape(len(median.y), len(median.x))
Reshape(flat, ny, nx) ==
    [y \in 1..ny |-> [x \in 1..nx |-> flat[(y - 1) * nx + x]]]

\* Cell "Predict": predict refuses rows whose length is not the number of
\* features of the fit (scikit-learn raises ValueError).
Predict ==
    /\ nb = "ml" /\ pc = "fitted"
    /\ LET stacked_arrays == FillNa(Stack(median, NY, NP))
           predicted == [k \in DOMAIN stacked_arrays |->
                            Classify(fitted.model, stacked_arrays[k])]
       IN  IF Len(DataVars) # Len(fitted.columns)
           THEN pc' = "raised" /\ predicted_da' = predicted_da
           ELSE /\ pc' = "predicted"
                /\ predicted_da' = [columns |-> DataVars,
                                    stacked_arrays |-> stacked_arrays,
                                    array |-> Reshape(predicted, NY, NP)]
    /\ UNCHANGED <<nb, data, years, masked, scaled, tides, points_gdf>>
    /\ UNCHANGED <<mlVars, coastVars, tideVars, ioVars, daskVars>>

InitPredict == LoadedML(GridScenes)
NextPredict == NextML \/ Predict
SpecPredict == InitPredict /\ [][NextPredict]_vars

\* C11 as stated: the label of grid cell (y, x) is the classifier's output
\* for the values of composite pixel (y, x), absent values included.
C11_LabelOfCompositePixel ==
    (nb = "ml" /\ pc = "predicted") =>
        \A y \in 1..NY : \A x \in 1..NP :
            predicted_da.array[y][x] = Classify(fitted.model, ToArray(At(median, y, x)))

ZeroFilled(vec) == [j \in DOMAIN vec |-> IF IsNaN(vec[j]) THEN FromInt(0) ELSE vec[j]]

\* C11 (amended): the prediction grid has the shape of the composite, and
\* the label of grid cell (y, x) is the classifier's output for the values
\* of composite pixel (y, x) with every absent value replaced by 0.
C11_LabelOfZeroFilledPixel ==
    (nb = "ml" /\ pc = "predicted") =>
        /\ DOMAIN predicted_da.array = 1..NY
        /\ \A y \in 1..NY :
              /\ DOMAIN predicted_da.array[y] = 1..NP
              /\ \A x \in 1..NP :
                    predicted_da.array[y][x] =
                        Classify(fitted.model, ZeroFilled(ToArray(At(median, y, x))))

\* A grid with an absent composite pixel whose labels differ across the
\* diagonal.
C11_Witness ==
    /\ nb = "ml" /\ pc = "predicted"
    /\ \E c \in GridCells : IsNaN(median[c].red)
    /\ predicted_da.array[1][NP] # predicted_da.array[NY][1]

\* C18: the rows given to predict have as many values as the rows the
\* classifier was fitted on, for the same variables in the same order: the
\* data variables of the composite.
C18_SameFeatureColumns ==
    (nb = "ml" /\ pc \in {"fitted", "predicted", "raised"} /\ fitted # Unset) =>
        /\ fitted.columns = DataVars
        /\ \A i \in DOMAIN fitted.array : Len(fitted.array[i]) = Len(DataVars)
        /\ pc # "raised"
        /\ pc = "predicted" =>
              /\ predicted_da.columns = fitted.columns
              /\ \A k \in DOMAIN predicted_da.stacked_arrays :
                    Len(predicted_da.stacked_arrays[k]) = Len(fitted.array[1])
              /\ \A i \in DOMAIN fitted.array : \A j \in DOMAIN fitted.array[i] :
                    fitted.array[i][j] = training_array[i].obs[predicted_da.columns[j]]

\* A prediction made after a fit on a table of complete rows.
C18_Witness ==
    /\ nb = "ml" /\ pc = "predicted"
    /\ Len(fitted.array) >= 2
    /\ Len(predicted_da.stacked_arrays) = NY * NP

====
